---- MODULE Spec2Model ----
(***************************************************************************)
(* Model of src/acl/ServerName.cc (Squid): the server_name ACL.            *)
(*                                                                         *)
(* Strings are sequences of byte values (0 is NUL).  A C pointer is the    *)
(* empty tuple (nullptr) or a one-element tuple holding what it points to. *)
(* The state is the ACL object (three option switches, the domain set) and *)
(* a record of the last operation performed on it with what it observed.   *)
(***************************************************************************)
EXTENDS Integers, Sequences, FiniteSets

VARIABLES useClientRequested, useServerProvided, useConsensus, domains, call, out

vars == <<useClientRequested, useServerProvided, useConsensus, domains, call, out>>

switches == <<useClientRequested, useServerProvided, useConsensus>>

----------------------------------------------------------------------------
(* Bounds and program constants *)

\* most name fields (CN plus subjectAltNames) a modelled certificate carries
MaxCertNames == 2

\* char cn[1024]
CnSize == 1024

----------------------------------------------------------------------------
(* Pointers and strings *)

nullptr == << >>

Ptr(x) == << x >>

Deref(p) == p[1]

\* the C string stored in a buffer: the bytes before the first NUL
CString(buf) ==
    IF \E i \in 1..Len(buf) : buf[i] = 0
    THEN LET n == CHOOSE i \in 1..Len(buf) : buf[i] = 0 /\ \A j \in 1..(i-1) : buf[j] # 0
         IN  SubSeq(buf, 1, n - 1)
    ELSE buf

\* SBuf::isEmpty
isEmpty(sbuf) == Len(sbuf) = 0

\* SBuf::c_str: the content followed by a terminator, read as a C string
c_str(sbuf) == CString(sbuf \o <<0>>)

\* bool to int, as in "return data->match(serverName)" of an int function
BoolToInt(b) == IF b THEN 1 ELSE 0

\* "none"
none == <<110, 111, 110, 101>>
\* ".a.com"
DotACom == <<46, 97, 46, 99, 111, 109>>
\* "a.com"
ACom == <<97, 46, 99, 111, 109>>
\* "x.a.com"
XACom == <<120, 46, 97, 46, 99, 111, 109>>
\* "xa.com"
XaCom == <<120, 97, 46, 99, 111, 109>>
\* "b.org"
BOrg == <<98, 46, 111, 114, 103>>
\* "B.ORG"
BOrgUpper == <<66, 46, 79, 82, 71>>
\* "b.org\0x"
BOrgNulX == <<98, 46, 111, 114, 103, 0, 120>>
\* "x\0.a.com"
XNulDotACom == <<120, 0, 46, 97, 46, 99, 111, 109>>
\* "xxx...x.a.com", n bytes long
LongName(n) == [i \in 1..n |-> IF i <= n - 6 THEN 120 ELSE DotACom[i - (n - 6)]]

----------------------------------------------------------------------------
(* Domain Matcher *)

ToLower(c) == IF c \in 65..90 THEN c + 32 ELSE c

EqualNoCase(s, t) ==
    /\ Len(s) = Len(t)
    /\ \A i \in 1..Len(s) : ToLower(s[i]) = ToLower(t[i])

\* t is what s ends with
EndsWithNoCase(s, t) ==
    /\ Len(t) <= Len(s)
    /\ \A i \in 1..Len(t) : ToLower(s[Len(s) - Len(t) + i]) = ToLower(t[i])

\* matchDomainName(h, d, mdnHonorWildcards): 0 when host h matches domain d.
\* A domain with a leading dot matches the domain itself and every subdomain;
\* any other domain matches only itself; case is ignored; an empty host
\* matches nothing.
matchDomainName(h, d) ==
    IF Len(h) = 0 \/ Len(d) = 0 THEN 1
    ELSE IF d[1] = 46
         THEN IF EqualNoCase(h, Tail(d)) \/ EndsWithNoCase(h, d) THEN 0 ELSE 1
         ELSE IF EqualNoCase(h, d) THEN 0 ELSE 1

aclHostDomainCompare(a, b) == matchDomainName(a, b)

\* Splay<char*>::find(value, compare): a pointer to an element that compares
\* equal to value, or nullptr
find(tree, h) ==
    LET equal == {d \in tree : aclHostDomainCompare(h, d) = 0}
    IN  IF equal = {} THEN nullptr ELSE Ptr(CHOOSE d \in equal : TRUE)

\* variant: the sense of the search result is inverted
ACLServerNameData_match_inverted(doms, host) ==
    IF host = nullptr
    THEN [ret |-> FALSE, finds |-> 0]
    ELSE LET result == find(doms, Deref(host))
         IN  [ret |-> result = nullptr, finds |-> 1]

ACLServerNameData_match(doms, host) ==
    IF host = nullptr
    THEN [ret |-> FALSE, finds |-> 0]
    ELSE LET result == find(doms, Deref(host))
         IN  [ret |-> result # nullptr, finds |-> 1]

----------------------------------------------------------------------------
(* Certificate names *)

\* an ASN1_STRING: length and data (not NUL-terminated)
Asn1String(bytes) == [length |-> Len(bytes), data |-> bytes]

\* variant: the copy loop does not stop at a NUL byte
check_cert_domain_noNulCheck(check_data, cn_data) ==
    IF cn_data.length > CnSize - 1
    THEN [ret |-> 1, calls |-> << >>, finds |-> 0]
    ELSE LET cn == [i \in 1..(cn_data.length + 1) |->
                       IF i <= cn_data.length THEN cn_data.data[i] ELSE 0]
             s  == Ptr(CString(cn))
             m  == ACLServerNameData_match(check_data, s)
         IN  [ret   |-> IF m.ret THEN 0 ELSE 1,
              calls |-> << [src |-> "cn", host |-> s, ret |-> m.ret] >>,
              finds |-> m.finds]

\* check_cert_domain: 0 when the name matches the acl data, 1 when it does not.
\* calls lists the data->match calls made, finds the tree searches.
check_cert_domain(check_data, cn_data) ==
    IF cn_data.length > CnSize - 1
    THEN [ret |-> 1, calls |-> << >>, finds |-> 0]
    ELSE IF \E i \in 1..cn_data.length : cn_data.data[i] = 0
         THEN [ret |-> 1, calls |-> << >>, finds |-> 0]
         ELSE LET cn == [i \in 1..(cn_data.length + 1) |->
                            IF i <= cn_data.length THEN cn_data.data[i] ELSE 0]
                  s  == Ptr(CString(cn))
                  m  == ACLServerNameData_match(check_data, s)
              IN  [ret   |-> IF m.ret THEN 0 ELSE 1,
                   calls |-> << [src |-> "cn", host |-> s, ret |-> m.ret] >>,
                   finds |-> m.finds]

\* Ssl::matchX509CommonNames(peer_cert, check_data, check_func): check_func is
\* called on the certificate's names in order until one call returns 0; true
\* iff one did.  Here from the i-th name on.
RECURSIVE matchNamesFrom(_, _, _)
matchNamesFrom(names, check_data, i) ==
    IF i > Len(names)
    THEN [ret |-> FALSE, visited |-> 0, calls |-> << >>, finds |-> 0]
    ELSE LET r == check_cert_domain(check_data, names[i])
         IN  IF r.ret = 0
             THEN [ret |-> TRUE, visited |-> 1, calls |-> r.calls, finds |-> r.finds]
             ELSE LET rest == matchNamesFrom(names, check_data, i + 1)
                  IN  [ret     |-> rest.ret,
                       visited |-> 1 + rest.visited,
                       calls   |-> r.calls \o rest.calls,
                       finds   |-> r.finds + rest.finds]

matchX509CommonNames(peer_cert, check_data) ==
    matchNamesFrom(Deref(peer_cert).names, check_data, 1)

\* Ssl::checkX509ServerValidity(cert, server): an oracle of the TLS layer; its
\* answer for this certificate and the name asked about is part of the input
checkX509ServerValidity(peer_cert, server) == Deref(peer_cert).coversRequested

----------------------------------------------------------------------------
(* Acl::ServerNameCheck *)

\* variant: the request's host is preferred to the SNI
ClientRequestedServerName_hostFirst(conn, request) ==
    LET host == request.url_host
    IN  IF host # nullptr /\ Len(Deref(host)) > 0
        THEN [name |-> host, reads |-> {"url.host"}]
        ELSE LET clientSniKeeper == conn.tlsClientSni
             IN  [name  |-> IF isEmpty(clientSniKeeper) THEN nullptr
                            ELSE Ptr(c_str(clientSniKeeper)),
                  reads |-> {"url.host", "tlsClientSni"}]

\* lines 88-95: the name the client asked for, and the accessors read
ClientRequestedServerName(conn, request) ==
    LET clientSniKeeper == conn.tlsClientSni
    IN  IF isEmpty(clientSniKeeper)
        THEN LET host == request.url_host
             IN  [name  |-> IF host # nullptr /\ Len(Deref(host)) > 0 THEN host ELSE nullptr,
                  reads |-> {"tlsClientSni", "url.host"}]
        ELSE [name |-> Ptr(c_str(clientSniKeeper)), reads |-> {"tlsClientSni"}]

\* conn->serverBump() ? conn->serverBump()->serverCert.get() : nullptr
PeerCert(conn) ==
    IF conn.serverBump # nullptr THEN Deref(conn.serverBump).serverCert ELSE nullptr

\* variant: the client-requested name is used only with a certificate that
\* covers it
ConsensusServerName_needsCert(conn, clientRequestedServerName) ==
    LET peer_cert == PeerCert(conn)
    IN  IF peer_cert = nullptr
        THEN [byCert |-> FALSE, serverName |-> nullptr,
              oracle |-> << >>, reads |-> {"serverBump"}]
        ELSE [byCert |-> FALSE,
              serverName |-> IF checkX509ServerValidity(peer_cert, clientRequestedServerName)
                             THEN clientRequestedServerName ELSE nullptr,
              oracle |-> << clientRequestedServerName >>, reads |-> {"serverBump"}]

\* variant: a certificate that does not cover the client-requested name has
\* its own names matched
ConsensusServerName_fallsToCert(conn, clientRequestedServerName) ==
    LET peer_cert == PeerCert(conn)
    IN  IF peer_cert = nullptr
        THEN [byCert |-> FALSE, serverName |-> clientRequestedServerName,
              oracle |-> << >>, reads |-> {"serverBump"}]
        ELSE IF checkX509ServerValidity(peer_cert, clientRequestedServerName)
             THEN [byCert |-> FALSE, serverName |-> clientRequestedServerName,
                   oracle |-> << clientRequestedServerName >>, reads |-> {"serverBump"}]
             ELSE [byCert |-> TRUE, serverName |-> nullptr,
                   oracle |-> << clientRequestedServerName >>, reads |-> {"serverBump"}]

\* lines 97-102, useConsensus: the client-requested name if the certificate
\* covers it or is not available, else nothing (nullptr)
ConsensusServerName(conn, clientRequestedServerName) ==
    LET peer_cert == PeerCert(conn)
    IN  IF peer_cert = nullptr
        THEN [byCert |-> FALSE, serverName |-> clientRequestedServerName,
              oracle |-> << >>, reads |-> {"serverBump"}]
        ELSE [byCert |-> FALSE,
              serverName |-> IF checkX509ServerValidity(peer_cert, clientRequestedServerName)
                             THEN clientRequestedServerName ELSE nullptr,
              oracle |-> << clientRequestedServerName >>, reads |-> {"serverBump"}]

\* variant: the certificate's names are matched only under useServerProvided
DefaultServerName_certOnlyIfServerProvided(sp, conn, clientRequestedServerName) ==
    LET peer_cert == PeerCert(conn)
    IN  IF sp /\ peer_cert # nullptr
        THEN [byCert |-> TRUE, serverName |-> nullptr,
              oracle |-> << >>, reads |-> {"serverBump"}]
        ELSE [byCert |-> FALSE,
              serverName |-> IF ~sp THEN clientRequestedServerName ELSE nullptr,
              oracle |-> << >>, reads |-> {"serverBump"}]

\* variant: without a certificate the client-requested name is always used
DefaultServerName_alwaysRequested(sp, conn, clientRequestedServerName) ==
    LET peer_cert == PeerCert(conn)
    IN  IF peer_cert # nullptr
        THEN [byCert |-> TRUE, serverName |-> nullptr,
              oracle |-> << >>, reads |-> {"serverBump"}]
        ELSE [byCert |-> FALSE, serverName |-> clientRequestedServerName,
              oracle |-> << >>, reads |-> {"serverBump"}]

\* lines 105-110, either no options or useServerProvided: the certificate's
\* names are to be matched (byCert) if there is a certificate; else the
\* client-requested name unless useServerProvided
DefaultServerName(sp, conn, clientRequestedServerName) ==
    LET peer_cert == PeerCert(conn)
    IN  IF peer_cert # nullptr
        THEN [byCert |-> TRUE, serverName |-> nullptr,
              oracle |-> << >>, reads |-> {"serverBump"}]
        ELSE [byCert |-> FALSE,
              serverName |-> IF ~sp THEN clientRequestedServerName ELSE nullptr,
              oracle |-> << >>, reads |-> {"serverBump"}]

\* lines 97-110: what is assigned to serverName (nullptr if nothing), or that
\* the function returns through the certificate's names (byCert)
SelectServerName(cr, sp, co, conn, clientRequestedServerName) ==
    IF co
    THEN ConsensusServerName(conn, clientRequestedServerName)
    ELSE IF cr
         THEN [byCert |-> FALSE, serverName |-> clientRequestedServerName,
               oracle |-> << >>, reads |-> {}]
         ELSE DefaultServerName(sp, conn, clientRequestedServerName)

\* variant: a name that was not determined is handed on as it is
MatchPlainName_noSentinel(doms, serverName, oracle, reads) ==
    LET m == ACLServerNameData_match(doms, serverName)
    IN  [ret        |-> BoolToInt(m.ret),
         enumerated |-> FALSE,
         visited    |-> 0,
         serverName |-> serverName,
         calls      |-> << [src |-> "serverName", host |-> serverName, ret |-> m.ret] >>,
         finds      |-> m.finds,
         oracle     |-> oracle,
         reads      |-> reads]

\* lines 113-116
MatchPlainName(doms, serverName, oracle, reads) ==
    LET name == IF serverName = nullptr THEN Ptr(none) ELSE serverName
        m    == ACLServerNameData_match(doms, name)
    IN  [ret        |-> BoolToInt(m.ret),
         enumerated |-> FALSE,
         visited    |-> 0,
         serverName |-> name,
         calls      |-> << [src |-> "serverName", host |-> name, ret |-> m.ret] >>,
         finds      |-> m.finds,
         oracle     |-> oracle,
         reads      |-> reads]

\* Acl::ServerNameCheck::match(ch)
ServerNameCheck_match(cr, sp, co, doms, checklist) ==
    IF checklist.conn # nullptr
    THEN LET conn == Deref(checklist.conn)
             crsn == ClientRequestedServerName(conn, checklist.request)
             sel  == SelectServerName(cr, sp, co, conn, crsn.name)
         IN  IF sel.byCert
             THEN LET e == matchX509CommonNames(PeerCert(conn), doms)
                  IN  [ret        |-> BoolToInt(e.ret),
                       enumerated |-> TRUE,
                       visited    |-> e.visited,
                       serverName |-> nullptr,
                       calls      |-> e.calls,
                       finds      |-> e.finds,
                       oracle     |-> sel.oracle,
                       reads      |-> crsn.reads \cup sel.reads]
             ELSE MatchPlainName(doms, sel.serverName, sel.oracle, crsn.reads \cup sel.reads)
    ELSE MatchPlainName(doms, nullptr, << >>, {})

\* variant: the consensus switch is not counted
valid_forgetsConsensus(cr, sp, co) ==
    LET c1 == IF cr THEN 1 ELSE 0
        optionCount == IF sp THEN c1 + 1 ELSE c1
    IN  IF optionCount > 1 THEN FALSE ELSE TRUE

\* Acl::ServerNameCheck::valid
valid(cr, sp, co) ==
    LET c1 == IF cr THEN 1 ELSE 0
        c2 == IF sp THEN c1 + 1 ELSE c1
        optionCount == IF co THEN c2 + 1 ELSE c2
    IN  IF optionCount > 1 THEN FALSE ELSE TRUE

----------------------------------------------------------------------------
(* Inputs *)

\* configured domain patterns
Patterns == {DotACom, BOrg, none}

\* what conn->tlsClientSni() may hold
SniNames == {<< >>, XACom}

\* what request->url.host() may point to
HostNames == {<< >>, BOrgUpper}

\* raw name fields of the modelled certificates
CertFields ==
    {Asn1String(XACom), Asn1String(BOrgNulX)}

\* raw name fields handed to check_cert_domain on its own
RawFields ==
    CertFields \cup
    {Asn1String(<< >>), Asn1String(none), Asn1String(XaCom), Asn1String(BOrgUpper),
     Asn1String(XNulDotACom), Asn1String(LongName(CnSize - 1)), Asn1String(LongName(CnSize))}

\* candidates handed to ACLServerNameData::match on its own
Candidates ==
    {nullptr} \cup {Ptr(h) : h \in {<< >>, none, ACom, XACom, XaCom, BOrg, BOrgUpper}}

SeqsUpTo(S, n) == UNION {[1..k -> S] : k \in 0..n}

Certs == [names : SeqsUpTo(CertFields, MaxCertNames), coversRequested : BOOLEAN]

ServerBumps == {nullptr} \cup {Ptr([serverCert |-> c]) : c \in {nullptr} \cup {Ptr(x) : x \in Certs}}

Conns == [tlsClientSni : SniNames, serverBump : ServerBumps]

Checklists ==
    [conn : {nullptr} \cup {Ptr(c) : c \in Conns},
     request : [url_host : {Ptr(h) : h \in HostNames}]]

OptionNames == {"--client-requested", "--server-provided", "--consensus"}

----------------------------------------------------------------------------
(* The state machine *)

NoCall == [op |-> "none"]

Init ==
    /\ useClientRequested = FALSE
    /\ useServerProvided = FALSE
    /\ useConsensus = FALSE
    /\ domains \in SUBSET Patterns
    /\ call = NoCall
    /\ out = NoCall

\* Acl::ServerNameCheck::options: each option is linked with its switch, which
\* the option parser turns on when the option is given
ParseOption ==
    \E o \in OptionNames :
        /\ useClientRequested' = (useClientRequested \/ o = "--client-requested")
        /\ useServerProvided' = (useServerProvided \/ o = "--server-provided")
        /\ useConsensus' = (useConsensus \/ o = "--consensus")
        /\ call' = [op |-> "options", arg |-> o]
        /\ out' = NoCall
        /\ UNCHANGED domains

Valid ==
    /\ call' = [op |-> "valid"]
    /\ out' = [ret |-> valid(useClientRequested, useServerProvided, useConsensus)]
    /\ UNCHANGED <<useClientRequested, useServerProvided, useConsensus, domains>>

\* variant: an evaluation whose consensus failed turns the check into a
\* server-provided one
Match_fallsBackForGood ==
    \E ch \in Checklists :
        LET r == ServerNameCheck_match(useClientRequested, useServerProvided,
                                       useConsensus, domains, ch)
            failed == useConsensus /\ r.oracle # << >> /\ r.serverName = Ptr(none)
        IN  /\ call' = [op |-> "match", arg |-> ch]
            /\ out' = r
            /\ useConsensus' = IF failed THEN FALSE ELSE useConsensus
            /\ useServerProvided' = IF failed THEN TRUE ELSE useServerProvided
            /\ UNCHANGED <<useClientRequested, domains>>

Match ==
    \E ch \in Checklists :
        /\ call' = [op |-> "match", arg |-> ch]
        /\ out' = ServerNameCheck_match(useClientRequested, useServerProvided,
                                        useConsensus, domains, ch)
        /\ UNCHANGED <<useClientRequested, useServerProvided, useConsensus, domains>>

DataMatch ==
    \E host \in Candidates :
        /\ call' = [op |-> "data.match", arg |-> host]
        /\ out' = ACLServerNameData_match(domains, host)
        /\ UNCHANGED <<useClientRequested, useServerProvided, useConsensus, domains>>

CheckCertDomain ==
    \E cn_data \in RawFields :
        /\ call' = [op |-> "check_cert_domain", arg |-> cn_data]
        /\ out' = check_cert_domain(domains, cn_data)
        /\ UNCHANGED <<useClientRequested, useServerProvided, useConsensus, domains>>

Next == ParseOption \/ Valid \/ Match \/ DataMatch \/ CheckCertDomain

Spec == Init /\ [][Next]_vars

----------------------------------------------------------------------------
(* Vocabulary of the properties *)

IsMatchCall == call.op = "match"

HasConn == IsMatchCall /\ call.arg.conn # nullptr

TheConn == Deref(call.arg.conn)

Sni == TheConn.tlsClientSni

Host == Deref(call.arg.request.url_host)

CertPresent ==
    /\ HasConn
    /\ TheConn.serverBump # nullptr
    /\ Deref(TheConn.serverBump).serverCert # nullptr

TheCert == Deref(Deref(TheConn.serverBump).serverCert)

\* the client-requested name: the SNI if non-empty, else the host if
\* non-empty, else absent
RequestedName ==
    IF Sni # << >> THEN Ptr(Sni) ELSE IF Host # << >> THEN Ptr(Host) ELSE nullptr

\* an absent name is rendered as "none"
Rendered(p) == IF p = nullptr THEN none ELSE Deref(p)

\* some configured pattern matches the string
MatcherAccepts(s) == \E d \in domains : matchDomainName(s, d) = 0

HasNul(bytes) == \E i \in 1..Len(bytes) : bytes[i] = 0

\* the evaluation resolved to the plain name: no certificate enumeration, one
\* Domain Matcher call, made with that name, whose result is returned
PlainNameMode(name) ==
    /\ ~out.enumerated
    /\ out.visited = 0
    /\ out.serverName = Ptr(name)
    /\ out.calls = << [src |-> "serverName", host |-> Ptr(name), ret |-> MatcherAccepts(name)] >>
    /\ out.ret = BoolToInt(MatcherAccepts(name))

----------------------------------------------------------------------------
(* Properties *)

\* C1: valid() returns false when more than one switch is enabled and true
\* when zero or one is; it changes no switch, and the answer is a function of
\* the switches alone, whatever was evaluated before.
C1_ValidAtMostOneSwitch ==
    [][call'.op = "valid" =>
          /\ out'.ret = (Cardinality({i \in 1..3 : switches[i]}) <= 1)
          /\ switches' = switches
          /\ domains' = domains]_vars

C1_Witness ==
    /\ call.op = "valid"
    /\ useClientRequested /\ useServerProvided /\ ~useConsensus
    /\ out.ret = FALSE

\* C2: connection present, consensus set, and the certificate absent or
\* covering the requested name: the plain name is the client-requested name
\* ("none" if absent), matched once, and that result is returned.
C2_ConsensusAgrees ==
    (HasConn /\ useConsensus /\ (~CertPresent \/ TheCert.coversRequested))
        => PlainNameMode(Rendered(RequestedName))

C2_Witness ==
    /\ HasConn /\ useConsensus /\ CertPresent /\ TheCert.coversRequested
    /\ Sni # << >>
    /\ out.oracle = << Ptr(Sni) >>
    /\ out.serverName = Ptr(Sni)
    /\ out.ret = 1

\* C3: connection present, consensus set, certificate present and not
\* covering the requested name: the plain name is "none", matched once; the
\* certificate's names are not enumerated, whatever the other switches are.
C3_ConsensusDisagrees ==
    (HasConn /\ useConsensus /\ CertPresent /\ ~TheCert.coversRequested)
        => PlainNameMode(none)

C3_Witness ==
    /\ HasConn /\ useConsensus /\ ~useClientRequested /\ ~useServerProvided
    /\ CertPresent /\ ~TheCert.coversRequested
    /\ Sni # << >> /\ Len(TheCert.names) > 0
    /\ out.calls[1].host = Ptr(none)
    /\ ~out.enumerated

\* C4: connection present, consensus and client-requested unset, certificate
\* present: the result is that of enumerating the certificate's names through
\* the callback up to the first match; no plain name is handed to the Domain
\* Matcher; the result is the same for every SNI and host.
C4_CertificateMode ==
    (HasConn /\ ~useConsensus /\ ~useClientRequested /\ CertPresent) =>
        LET names   == TheCert.names
            hits    == {i \in 1..Len(names) : check_cert_domain(domains, names[i]).ret = 0}
            stopsAt == IF hits = {} THEN Len(names)
                       ELSE CHOOSE i \in hits : \A j \in hits : i <= j
        IN  /\ out.enumerated
            /\ out.ret = BoolToInt(hits # {})
            /\ out.visited = stopsAt
            /\ out.serverName = nullptr
            /\ \A k \in 1..Len(out.calls) : out.calls[k].src = "cn"
            /\ \A s \in SniNames, h \in HostNames :
                  ServerNameCheck_match(useClientRequested, useServerProvided, useConsensus,
                      domains,
                      [conn |-> Ptr([TheConn EXCEPT !.tlsClientSni = s]),
                       request |-> [url_host |-> Ptr(h)]]).ret = out.ret

C4_Witness ==
    /\ HasConn /\ ~useConsensus /\ ~useClientRequested /\ useServerProvided /\ CertPresent
    /\ Len(TheCert.names) = 2
    /\ Sni = << >> /\ Host # << >> /\ ~MatcherAccepts(Host)
    /\ out.visited = 1
    /\ out.ret = 1

\* C5: connection present, consensus and client-requested unset, no
\* certificate: the plain name is the client-requested name under the default
\* policy and "none" under server-provided; matched once, result returned.
C5_NoCertificate ==
    (HasConn /\ ~useConsensus /\ ~useClientRequested /\ ~CertPresent) =>
        IF useServerProvided
        THEN PlainNameMode(none)
        ELSE PlainNameMode(Rendered(RequestedName))

C5_Witness ==
    /\ HasConn /\ ~useConsensus /\ ~useClientRequested /\ useServerProvided /\ ~CertPresent
    /\ Sni # << >> /\ MatcherAccepts(Sni)
    /\ out.calls[1].host = Ptr(none)
    /\ out.ret = 0

\* C6: connection present, client-requested set, consensus unset: the plain
\* name is the SNI if non-empty, else the host if non-empty, else "none"; the
\* certificate and the oracle are not consulted.
C6_ClientRequested ==
    (HasConn /\ useClientRequested /\ ~useConsensus) =>
        /\ PlainNameMode(Rendered(RequestedName))
        /\ (Sni # << >> => out.serverName = Ptr(Sni))
        /\ "serverBump" \notin out.reads
        /\ out.oracle = << >>

C6_Witness ==
    /\ HasConn /\ useClientRequested /\ ~useConsensus /\ CertPresent
    /\ Sni # << >> /\ Host # << >> /\ Sni # Host
    /\ out.serverName = Ptr(Sni)
    /\ out.ret = 1 /\ ~MatcherAccepts(Host)

\* C7: no connection: the plain name is "none" for every switch setting and
\* host; nothing of the connection or the request is read; the result is
\* true exactly when a configured pattern matches "none".
C7_NoConnection ==
    (IsMatchCall /\ call.arg.conn = nullptr) =>
        /\ PlainNameMode(none)
        /\ out.reads = {}
        /\ out.oracle = << >>
        /\ out.finds = 1

C7_Witness ==
    /\ IsMatchCall /\ call.arg.conn = nullptr
    /\ useClientRequested
    /\ Host # << >> /\ MatcherAccepts(Host)
    /\ out.ret = 0

\* C8: check_cert_domain returns 0 exactly when the field is at most 1023
\* bytes long, holds no NUL and the Domain Matcher accepts its bytes, and 1
\* otherwise; an oversize field or one with a NUL never reaches the Domain
\* Matcher; a field of exactly 1023 bytes does.
C8_CertNameCallback ==
    call.op = "check_cert_domain" =>
        LET f == call.arg
        IN  /\ out.ret \in {0, 1}
            /\ (out.ret = 0) <=>
                   (f.length <= 1023 /\ ~HasNul(f.data) /\ MatcherAccepts(f.data))
            /\ (f.length > 1023 \/ HasNul(f.data)) => (out.calls = << >> /\ out.finds = 0)
            /\ (f.length <= 1023 /\ ~HasNul(f.data)) =>
                   (Len(out.calls) = 1 /\ out.calls[1].host = Ptr(f.data))

C8_Witness ==
    /\ call.op = "check_cert_domain"
    /\ call.arg.length = 1023
    /\ Len(out.calls) = 1
    /\ out.ret = 0

\* C9 as stated: for an absent or empty candidate the Domain Matcher yields
\* false and does not search the pattern set.
C9_AsStated ==
    (call.op = "data.match" /\ (call.arg = nullptr \/ call.arg = Ptr(<< >>)))
        => (out.ret = FALSE /\ out.finds = 0)

\* C9 amended: for an absent or empty candidate the Domain Matcher yields
\* false; the pattern set is not searched for an absent candidate, and is
\* searched (finding nothing) for an empty one.
C9_AbsentOrEmptyCandidate ==
    /\ (call.op = "data.match" /\ call.arg = nullptr) => (out.ret = FALSE /\ out.finds = 0)
    /\ (call.op = "data.match" /\ call.arg = Ptr(<< >>)) => (out.ret = FALSE /\ out.finds = 1)

C9_Witness ==
    /\ call.op = "data.match"
    /\ call.arg = Ptr(<< >>)
    /\ domains = Patterns
    /\ out.finds = 1
    /\ out.ret = FALSE

\* C10: an evaluation leaves the switches and the domain set as they were,
\* and evaluating again with the same input, after it, gives what it gave.
C10_EvaluationKeepsNothing ==
    [][call'.op = "match" =>
          /\ switches' = switches
          /\ domains' = domains
          /\ out' = ServerNameCheck_match(useClientRequested', useServerProvided',
                                          useConsensus', domains', call'.arg)
          /\ (call.op = "match" /\ call.arg = call'.arg) => out'.ret = out.ret]_vars

C10_Witness ==
    /\ HasConn /\ useConsensus /\ ~useClientRequested /\ ~useServerProvided
    /\ CertPresent /\ ~TheCert.coversRequested
    /\ domains = Patterns
    /\ out.ret = 1

====
